---- MODULE Spec2Model ----
(***************************************************************************)
(* Model of SnowFieldSystem (the deformable snow grid and its host loop).  *)
(*                                                                         *)
(* Numbers.  The program computes in floating point; the model computes in *)
(* fixed point:                                                            *)
(*   - planar coordinates, radii and speeds: 1 unit = 0.05 world units     *)
(*   - depth and colorIntensity arguments: 1 unit = 0.01                   *)
(*   - distances: 1 unit = 0.01 planar unit (floor of the square root)     *)
(*   - influence: 1 unit = 0.01                                            *)
(*   - elevation, trackIntensity and heights: 1 unit = 0.0001              *)
(*   - colour channels: 1 unit = 0.000001                                  *)
(*   - normal components: 1 unit = 0.01                                    *)
(*                                                                         *)
(* The scene, camera, lights, orbit controls, material colour and the      *)
(* cube's rotation have no effect on the grid and are left out.            *)
(***************************************************************************)
EXTENDS Integers, Sequences, FiniteSets, TLC

\* ---------------------------------------------------------------- bounds
MaxCalls == 3
MaxFrames == 3

\* ------------------------------------------------- fixed-point resolution
InfluenceOne == 100
IntensityOne == 10000
ColorOne == 1000000
NormalOne == 100
PlanarToHeight == 500

\* ---------------------------------------------------- options and fields
snowSize == 60
snowSegments == 3
movementSpeed == 1
subdivision == snowSize \div snowSegments
halfSize == snowSize \div 2
Row == snowSegments + 1
PlaneCount == Row * Row

\* default arguments of pressSnow / createTrack / addVehicleTrack
DefaultRadius == 10
DefaultDepth == 10
DefaultColorIntensity == 60
DefaultWheelOffset == 4
wheelRadius == 2
wheelDepth == 8
wheelColorIntensity == 80
centerRadius == 6
centerDepth == 5
centerColorIntensity == 40
cubeLimitMargin == 20

\* ---------------------------------------------------------- arithmetic
Min(a, b) == IF a < b THEN a ELSE b
Max(a, b) == IF a > b THEN a ELSE b
Sign(a) == IF a > 0 THEN 1 ELSE IF a < 0 THEN -1 ELSE 0

Abs(a) == IF a < 0 THEN -a ELSE a
\* division rounding towards zero, b # 0
TDiv(a, b) == Sign(a) * Sign(b) * (Abs(a) \div Abs(b))

RECURSIVE Isqrt(_)
\* Math.sqrt at integer resolution: floor of the square root
Isqrt(n) ==
  IF n < 16
  THEN IF n < 1 THEN 0 ELSE IF n < 4 THEN 1 ELSE IF n < 9 THEN 2 ELSE 3
  ELSE LET s == 4 * Isqrt(n \div 16)
       IN IF (s + 2) * (s + 2) <= n
          THEN IF (s + 3) * (s + 3) <= n THEN s + 3 ELSE s + 2
          ELSE IF (s + 1) * (s + 1) <= n THEN s + 1 ELSE s

\* a Float32Array holds values: the function is evaluated once, on writing
Float32Array(f) == f @@ <<>>

\* ------------------------------------------------------ THREE.Vector3
Sub3(a, b) == <<a[1] - b[1], a[2] - b[2], a[3] - b[3]>>
Add3(a, b) == <<a[1] + b[1], a[2] + b[2], a[3] + b[3]>>
Cross3(a, b) ==
  << a[2] * b[3] - a[3] * b[2],
     a[3] * b[1] - a[1] * b[3],
     a[1] * b[2] - a[2] * b[1] >>
\* Vector3.normalize: divideScalar(length() || 1); result at NormalOne
Normalize3(v) ==
  LET len == Isqrt(v[1] * v[1] + v[2] * v[2] + v[3] * v[3])
  IN IF len = 0 THEN <<0, 0, 0>>
     ELSE << TDiv(v[1] * NormalOne, len),
             TDiv(v[2] * NormalOne, len),
             TDiv(v[3] * NormalOne, len) >>

\* ------------------------------------------------------- grid geometry
\* PlaneGeometry(size, size, segments, segments).rotateX(-PI/2):
\* row-major samples, x and z from -size/2 in steps of size/segments, y = 0
PlanePosition(i) ==
  << (i % Row) * subdivision - halfSize,
     0,
     (i \div Row) * subdivision - halfSize >>
\* the normal the rotated plane carries before any recomputation
PlaneNormal == <<0, NormalOne, 0>>
\* baseNormals, stored by initSnowData
BaseNormal == <<0, NormalOne, 0>>

VARIABLES
  count,            \* this.count
  basePositions,    \* this.basePositions, sample -> <<x, y, z>>
  elevations,       \* this.elevations
  trackIntensity,   \* this.trackIntensity
  positionY,        \* snowGeometry.attributes.position, y of every sample
  colorAttr,        \* snowGeometry.attributes.color, sample -> <<r, g, b>>
  normalAttr,       \* snowGeometry.attributes.normal, sample -> <<x, y, z>>
  keys,             \* this.keys
  cubePosition,     \* this.cube.position, <<x, z, rounding x, rounding z>>
  lastPosition,     \* this.lastPosition, <<x, z, rounding x, rounding z>>
  frames,           \* number of frames handed to the renderer
  calls,            \* number of calls made by the host on the public methods
  lastOp,           \* the last operation that ran: name, arguments, effect
  inputsBounded,    \* every colorIntensity passed so far was within [0, 1]
  pressed,          \* the presses applied since construction or the last reset
  lookup,           \* the last getVertexIndex call and its result
  construction      \* the options given to the constructor and its outcome

gridVars == <<count, basePositions, elevations, trackIntensity>>
bufferVars == <<positionY, colorAttr, normalAttr>>
cubeVars == <<keys, cubePosition, lastPosition>>
vars == <<count, basePositions, elevations, trackIntensity,
          positionY, colorAttr, normalAttr,
          keys, cubePosition, lastPosition,
          frames, calls, lastOp, inputsBounded, pressed, lookup,
          construction>>

Samples == 0 .. (count - 1)

\* the grid object: the fields the grid operations read and write
Grid ==
  [ count |-> count, basePositions |-> basePositions,
    elevations |-> elevations, trackIntensity |-> trackIntensity,
    positionY |-> positionY, colorAttr |-> colorAttr,
    normalAttr |-> normalAttr ]

SetGrid(g) ==
  /\ count' = g.count
  /\ basePositions' = g.basePositions
  /\ elevations' = g.elevations
  /\ trackIntensity' = g.trackIntensity
  /\ positionY' = g.positionY
  /\ colorAttr' = g.colorAttr
  /\ normalAttr' = g.normalAttr

\* ------------------------------------------------------- getVertexIndex
\* Math.max(0, Math.min(this.snowSegments, index))
ClampIndexNone(index) == index
ClampIndex(index) == Max(0, Min(snowSegments, index))

getVertexIndex(x, z) ==
  LET xIndex == (x + halfSize) \div subdivision
      zIndex == (z + halfSize) \div subdivision
      clampedXIndex == ClampIndex(xIndex)
      clampedZIndex == ClampIndex(zIndex)
  IN clampedZIndex * (snowSegments + 1) + clampedXIndex

\* ------------------------------------------------------------ pressSnow
\* Math.sqrt((vx - x) ** 2 + (vz - z) ** 2)
Distance(base, i, x, z) ==
  Isqrt(((base[i][1] - x) * (base[i][1] - x)
         + (base[i][3] - z) * (base[i][3] - z)) * 10000)

\* distance < radius
InRadiusAbs(distance, radius) ==
  distance < (IF radius < 0 THEN -radius ELSE radius) * 100
InRadius(distance, radius) == distance < radius * 100

\* 1 - (distance / radius)
Influence(distance, radius) == InfluenceOne - TDiv(distance, radius)

\* Math.min(this.elevations[i], -depth * influence), stored only if lower
NewElevationAdd(cur, depth, influence) == cur + (-depth * influence)
NewElevationSet(cur, depth, influence) == -depth * influence
NewElevation(cur, depth, influence) ==
  LET newElevation == Min(cur, -depth * influence)
  IN IF newElevation < cur THEN newElevation ELSE cur

\* Math.max(this.trackIntensity[i], colorIntensity * influence), stored only
\* if higher
NewIntensityAdd(cur, colorIntensity, influence) ==
  cur + colorIntensity * influence
NewIntensity(cur, colorIntensity, influence) ==
  LET newIntensity == Max(cur, colorIntensity * influence)
  IN IF newIntensity > cur THEN newIntensity ELSE cur

\* the loop of pressSnow over all samples
PressElevations(n, base, elev, x, z, radius, depth) ==
  Float32Array(
    [i \in 0 .. (n - 1) |->
       LET distance == Distance(base, i, x, z)
       IN IF InRadius(distance, radius)
          THEN NewElevation(elev[i], depth, Influence(distance, radius))
          ELSE elev[i]])

PressIntensity(n, base, track, x, z, radius, colorIntensity) ==
  Float32Array(
    [i \in 0 .. (n - 1) |->
       LET distance == Distance(base, i, x, z)
       IN IF InRadius(distance, radius)
          THEN NewIntensity(track[i], colorIntensity,
                            Influence(distance, radius))
          ELSE track[i]])

\* --------------------------------------------------- updateSnowGeometry
\* positionAttribute.setY(i, basePositions[i*3+1] + elevations[i])
DerivePositionY(n, base, elev) ==
  Float32Array([i \in 0 .. (n - 1) |-> base[i][2] + elev[i]])

\* colorAttribute.setXYZ(i, 1 - t*0.2, 1 - t*0.15, 1 - t*0.1)
DeriveColor(n, track) ==
  [i \in 0 .. (n - 1) |->
     << ColorOne - track[i] * 20,
        ColorOne - track[i] * 15,
        ColorOne - track[i] * 10 >>]

\* the position of sample i in the position attribute, at height resolution
BufferPosition(base, posY, i) ==
  << base[i][1] * PlanarToHeight, posY[i], base[i][3] * PlanarToHeight >>

\* the normal of sample i from its four neighbours' current positions
VertexNormal(base, posY, i) ==
  LET x == i % Row
      z == i \div Row
      left == IF x > 0 THEN i - 1 ELSE i
      right == IF x < snowSegments THEN i + 1 ELSE i
      top == IF z > 0 THEN i - Row ELSE i
      bottom == IF z < snowSegments THEN i + Row ELSE i
      currentPos == BufferPosition(base, posY, i)
      toRight == Normalize3(Sub3(BufferPosition(base, posY, right), currentPos))
      toBottom == Normalize3(Sub3(BufferPosition(base, posY, bottom), currentPos))
      toLeft == Normalize3(Sub3(BufferPosition(base, posY, left), currentPos))
      toTop == Normalize3(Sub3(BufferPosition(base, posY, top), currentPos))
      normal1 == Normalize3(Cross3(toRight, toBottom))
      normal2 == Normalize3(Cross3(toBottom, toLeft))
      normal3 == Normalize3(Cross3(toLeft, toTop))
      normal4 == Normalize3(Cross3(toTop, toRight))
  IN Normalize3(Add3(Add3(Add3(normal1, normal2), normal3), normal4))

DeriveNormal(n, base, posY) ==
  [i \in 0 .. (n - 1) |-> VertexNormal(base, posY, i)]

\* positionAttribute.setY(i, positionAttribute.getY(i) + elevations[i])
updateSnowGeometryAdding(g) ==
  LET posY == Float32Array([i \in 0 .. (g.count - 1) |->
                              g.positionY[i] + g.elevations[i]])
  IN [g EXCEPT
        !.positionY = posY,
        !.colorAttr = DeriveColor(g.count, g.trackIntensity),
        !.normalAttr = DeriveNormal(g.count, g.basePositions, posY)]

updateSnowGeometry(g) ==
  LET posY == DerivePositionY(g.count, g.basePositions, g.elevations)
  IN [g EXCEPT
        !.positionY = posY,
        !.colorAttr = DeriveColor(g.count, g.trackIntensity),
        !.normalAttr = DeriveNormal(g.count, g.basePositions, posY)]

\* the sample loop of pressSnow, before the geometry update
pressSamples(g, x, z, radius, depth, colorIntensity) ==
  [g EXCEPT
     !.elevations =
        PressElevations(g.count, g.basePositions, g.elevations,
                        x, z, radius, depth),
     !.trackIntensity =
        PressIntensity(g.count, g.basePositions, g.trackIntensity,
                       x, z, radius, colorIntensity)]

pressSnowStale(g, x, z, radius, depth, colorIntensity) ==
  pressSamples(g, x, z, radius, depth, colorIntensity)
pressSnow(g, x, z, radius, depth, colorIntensity) ==
  updateSnowGeometry(pressSamples(g, x, z, radius, depth, colorIntensity))

createTrack(g, x, z, radius, depth, colorIntensity) ==
  pressSnow(g, x, z, radius, depth, colorIntensity)

resetSnowElevationsOnly(g) ==
  updateSnowGeometry(
    [g EXCEPT !.elevations = [i \in 0 .. (g.count - 1) |-> 0]])
resetSnow(g) ==
  updateSnowGeometry(
    [g EXCEPT !.elevations = [i \in 0 .. (g.count - 1) |-> 0],
              !.trackIntensity = [i \in 0 .. (g.count - 1) |-> 0]])

\* the five presses of addVehicleTrack, in the order of the code
VehiclePresses(x, z, wheelOffset) ==
  << [x |-> x - wheelOffset, z |-> z - wheelOffset, radius |-> wheelRadius,
      depth |-> wheelDepth, colorIntensity |-> wheelColorIntensity],
     [x |-> x + wheelOffset, z |-> z - wheelOffset, radius |-> wheelRadius,
      depth |-> wheelDepth, colorIntensity |-> wheelColorIntensity],
     [x |-> x - wheelOffset, z |-> z + wheelOffset, radius |-> wheelRadius,
      depth |-> wheelDepth, colorIntensity |-> wheelColorIntensity],
     [x |-> x + wheelOffset, z |-> z + wheelOffset, radius |-> wheelRadius,
      depth |-> wheelDepth, colorIntensity |-> wheelColorIntensity],
     [x |-> x, z |-> z, radius |-> centerRadius,
      depth |-> centerDepth, colorIntensity |-> centerColorIntensity] >>

RECURSIVE PressAll(_, _)
\* pressSnow called for every press of the sequence, first to last
PressAll(g, presses) ==
  IF presses = <<>> THEN g
  ELSE PressAll(pressSnow(g, Head(presses).x, Head(presses).z,
                          Head(presses).radius, Head(presses).depth,
                          Head(presses).colorIntensity),
                Tail(presses))

addVehicleTrack(g, x, z, wheelOffset) ==
  PressAll(g, VehiclePresses(x, z, wheelOffset))

\* --------------------------------------------------------------- state
KeyNames == {"w", "a", "s", "d"}
NoOp == [op |-> "init", x |-> 0, z |-> 0, radius |-> 0, depth |-> 0,
         changed |-> FALSE, repeated |-> FALSE]
\* the record of the operation of this step: its name and arguments, whether
\* it changed a sample, and whether the operation before it was the same one
Op(name, x, z, radius, depth) ==
  [op |-> name, x |-> x, z |-> z, radius |-> radius, depth |-> depth,
   changed |-> (elevations' # elevations
                \/ trackIntensity' # trackIntensity),
   repeated |-> (lastOp.op = name)]

\* createSnowField and initSnowData
FreshGrid ==
  [ count |-> PlaneCount,
    basePositions |-> [i \in 0 .. (PlaneCount - 1) |-> PlanePosition(i)],
    elevations |-> [i \in 0 .. (PlaneCount - 1) |-> 0],
    trackIntensity |-> [i \in 0 .. (PlaneCount - 1) |-> 0],
    positionY |-> [i \in 0 .. (PlaneCount - 1) |-> PlanePosition(i)[2]],
    colorAttr |-> [i \in 0 .. (PlaneCount - 1) |->
                     <<ColorOne, ColorOne, ColorOne>>],
    normalAttr |-> [i \in 0 .. (PlaneCount - 1) |-> PlaneNormal] ]

InitGrid ==
  /\ count = FreshGrid.count
  /\ basePositions = FreshGrid.basePositions
  /\ elevations = FreshGrid.elevations
  /\ trackIntensity = FreshGrid.trackIntensity
  /\ positionY = FreshGrid.positionY
  /\ colorAttr = FreshGrid.colorAttr
  /\ normalAttr = FreshGrid.normalAttr

InitCube ==
  /\ keys = [k \in KeyNames |-> FALSE]
  /\ cubePosition = <<0, 0, 0, 0>>
  /\ lastPosition = <<0, 0, 0, 0>>

NoLookup == [x |-> 0, z |-> 0, index |-> -1]
NoConstruction ==
  [ size |-> [given |-> FALSE, value |-> 0],
    segments |-> [given |-> FALSE, value |-> 0], outcome |-> "none",
    snowSize |-> 0, snowSegments |-> 0, count |-> 0,
    implementation |-> "class", elevationsLength |-> 0,
    trackIntensityLength |-> 0 ]

Init ==
  /\ InitGrid
  /\ InitCube
  /\ frames = 0
  /\ calls = 0
  /\ lastOp = NoOp
  /\ inputsBounded = TRUE
  /\ pressed = {}
  /\ lookup = NoLookup
  /\ construction = NoConstruction

\* ----------------------------------------------- the grid's public calls
\* press centres: on a sample, and at distance exactly 10 from a sample
Centres == { <<10, 10>>, <<4, 2>> }
Radii == { DefaultRadius, 15 }
\* <<depth, colorIntensity>>
Strengths == { <<DefaultDepth, DefaultColorIntensity>>, <<5, 100>>,
               <<-5, -50>>, <<20, 150>> }
\* <<x, z, radius, depth, colorIntensity>>; the last two have no extent
PressArguments ==
  { <<c[1], c[2], radius, st[1], st[2]>> :
      c \in Centres, radius \in Radii, st \in Strengths }
  \cup { <<10, 10, 0, DefaultDepth, DefaultColorIntensity>>,
         <<10, 10, -10, DefaultDepth, DefaultColorIntensity>> }
TrackPositions == { <<6, 6>>, <<10, 10>> }
WheelOffsets == { 0, DefaultWheelOffset }

CreateTrack(x, z, radius, depth, colorIntensity) ==
  /\ calls < MaxCalls
  /\ SetGrid(createTrack(Grid, x, z, radius, depth, colorIntensity))
  /\ lastOp' = Op("pressSnow", x, z, radius, depth)
  /\ calls' = calls + 1
  /\ inputsBounded' =
       (inputsBounded /\ colorIntensity >= 0 /\ colorIntensity <= 100)
  /\ UNCHANGED <<cubeVars, frames, lookup, construction>>

ResetSnow ==
  /\ calls < MaxCalls
  /\ SetGrid(resetSnow(Grid))
  /\ lastOp' = Op("resetSnow", 0, 0, 0, 0)
  /\ calls' = calls + 1
  /\ UNCHANGED <<cubeVars, frames, inputsBounded, lookup, construction>>

\* resetSnow called by the host between two frames of the running loop
ResetBetweenFrames ==
  /\ SetGrid(resetSnow(Grid))
  /\ lastOp' = Op("resetSnow", 0, 0, 0, 0)
  /\ UNCHANGED <<cubeVars, frames, calls, inputsBounded, pressed, lookup,
                 construction>>

UpdateSnowGeometry ==
  /\ calls < MaxCalls
  /\ SetGrid(updateSnowGeometry(Grid))
  /\ lastOp' = Op("updateSnowGeometry", 0, 0, 0, 0)
  /\ calls' = calls + 1
  /\ UNCHANGED <<cubeVars, frames, inputsBounded, lookup, construction>>

AddVehicleTrack(x, z, wheelOffset) ==
  /\ calls < MaxCalls
  /\ SetGrid(addVehicleTrack(Grid, x, z, wheelOffset))
  /\ lastOp' = Op("addVehicleTrack", x, z, wheelOffset, 0)
  /\ calls' = calls + 1
  /\ UNCHANGED <<cubeVars, frames, inputsBounded, lookup, construction>>

Next ==
  \/ \E a \in PressArguments :
       CreateTrack(a[1], a[2], a[3], a[4], a[5]) /\ UNCHANGED pressed
  \/ ResetSnow /\ UNCHANGED pressed
  \/ UpdateSnowGeometry /\ UNCHANGED pressed
  \/ \E p \in TrackPositions, wheelOffset \in WheelOffsets :
       AddVehicleTrack(p[1], p[2], wheelOffset) /\ UNCHANGED pressed

Spec == Init /\ [][Next]_vars

\* ------------------------------------ presses, with the history recorded
Press(x, z, radius, depth, colorIntensity) ==
  [x |-> x, z |-> z, radius |-> radius, depth |-> depth,
   colorIntensity |-> colorIntensity]

HistoryArguments ==
  { <<10, 10, DefaultRadius, DefaultDepth, DefaultColorIntensity>>,
    <<10, 10, DefaultRadius, 5, DefaultColorIntensity>>,
    <<10, 10, 15, 5, 100>>,
    <<4, 2, 15, DefaultDepth, DefaultColorIntensity>>,
    <<4, 2, 15, 20, 30>>,
    <<4, 2, 15, -5, -50>> }

RecordedPress(x, z, radius, depth, colorIntensity) ==
  /\ CreateTrack(x, z, radius, depth, colorIntensity)
  /\ pressed' = pressed \cup {Press(x, z, radius, depth, colorIntensity)}

RecordedVehicleTrack(x, z, wheelOffset) ==
  /\ AddVehicleTrack(x, z, wheelOffset)
  /\ pressed' = pressed
       \cup { VehiclePresses(x, z, wheelOffset)[k] : k \in 1 .. 5 }

RecordedReset ==
  /\ ResetSnow
  /\ pressed' = {}

NextPress ==
  \/ \E a \in HistoryArguments :
       RecordedPress(a[1], a[2], a[3], a[4], a[5])
  \/ RecordedVehicleTrack(6, 6, DefaultWheelOffset)
  \/ RecordedReset

SpecPress == Init /\ [][NextPress]_vars

\* ------------------------------------------------------ the host loop
\* keydown / keyup listeners: only the keys of this.keys are recorded; key
\* events are followed up to the last frame
KeyDown(k) ==
  /\ frames < MaxFrames
  /\ keys' = IF k \in DOMAIN keys THEN [keys EXCEPT ![k] = TRUE] ELSE keys
  /\ UNCHANGED <<gridVars, bufferVars, cubePosition,
                 lastPosition, frames, calls, lastOp, inputsBounded, pressed,
                 lookup, construction>>

KeyUp(k) ==
  /\ frames < MaxFrames
  /\ keys' = IF k \in DOMAIN keys THEN [keys EXCEPT ![k] = FALSE] ELSE keys
  /\ UNCHANGED <<gridVars, bufferVars, cubePosition,
                 lastPosition, frames, calls, lastOp, inputsBounded, pressed,
                 lookup, construction>>

\* A coordinate is a double.  The model's resolution does not tell a double
\* from its neighbours, so a coordinate carries a rounding mark next to its
\* value: 0 for the double nearest the value, 1 for a neighbour of it.  Two
\* coordinates are the same double when value and mark agree.
\* v -= speed followed by v += speed returns v for most doubles, but not for
\* all: (-0.1 - 0.05) + 0.05 = -0.10000000000000002.  -0.1 is the double that
\* two steps of 0.05 down from 0 reach.
InexactRoundTrip == {-2}

\* one axis after the key controls: v -= speed if minus, v += speed if plus
MovedAxis(v, r, minus, plus) ==
  IF minus /\ plus
  THEN IF v \in InexactRoundTrip /\ r = 0 THEN <<v, 1>> ELSE <<v, r>>
  ELSE IF minus THEN <<v - movementSpeed, r>>
  ELSE IF plus THEN <<v + movementSpeed, r>>
  ELSE <<v, r>>

\* the position after the key controls are applied, before clamping
MovedPosition(position, k) ==
  LET x == MovedAxis(position[1], position[3], k["a"], k["d"])
      z == MovedAxis(position[2], position[4], k["w"], k["s"])
  IN <<x[1], z[1], x[2], z[2]>>

\* limit = this.snowSize / 2 - 1
Limit(size) == TDiv(size, 2) - cubeLimitMargin

\* Math.max(-limit, Math.min(limit, v))
ClampAxis(limit, v) == Max(-limit, Min(limit, v))

\* the clamp on both axes; a clamped coordinate is the limit itself
ClampToSize(size, position) ==
  LET x == ClampAxis(Limit(size), position[1])
      z == ClampAxis(Limit(size), position[2])
  IN << x, z, IF x = position[1] THEN position[3] ELSE 0,
              IF z = position[2] THEN position[4] ELSE 0 >>

ClampToLimit(position) == ClampToSize(snowSize, position)

\* animate: updateVehiclePosition, then renderer.render
Animate ==
  /\ frames < MaxFrames
  /\ LET position == ClampToLimit(MovedPosition(cubePosition, keys))
     IN /\ cubePosition' = position
        /\ IF position # lastPosition
           THEN /\ SetGrid(addVehicleTrack(Grid, position[1], position[2],
                                           DefaultWheelOffset))
                /\ lastPosition' = position
           ELSE /\ SetGrid(Grid)
                /\ lastPosition' = lastPosition
        /\ lastOp' = Op("animate", position[1], position[2], 0, 0)
  /\ frames' = frames + 1
  /\ UNCHANGED <<keys, calls, inputsBounded, pressed, lookup, construction>>

\* where the cube stands when the loop starts: the default cube, or a
\* debugObject placed elsewhere
CubeStarts == { <<0, 0, 0, 0>>, <<8, -13, 0, 0>> }

InitLoop ==
  /\ InitGrid
  /\ keys = [k \in KeyNames |-> FALSE]
  /\ cubePosition \in CubeStarts
  /\ lastPosition = cubePosition
  /\ frames = 0
  /\ calls = 0
  /\ lastOp = NoOp
  /\ inputsBounded = TRUE
  /\ pressed = {}
  /\ lookup = NoLookup
  /\ construction = NoConstruction

NextLoop ==
  \/ \E k \in KeyNames \cup {"q"} : KeyDown(k)
  \/ \E k \in KeyNames \cup {"q"} : KeyUp(k)
  \/ Animate
  \/ ResetBetweenFrames

SpecLoop == InitLoop /\ [][NextLoop]_vars

\* the loop of a system built with the default cube
SpecDrive == Init /\ [][NextLoop]_vars

\* ------------------------------------------- addVehicleTrack on its own
TrackPriorArguments ==
  { <<10, 10, DefaultRadius, DefaultDepth, DefaultColorIntensity>>,
    <<4, 2, 15, 5, 100>> }
TrackArguments == { <<6, 6, DefaultWheelOffset>>, <<6, 6, 0>>, <<10, 10, 0>>,
                    <<9, 10, DefaultWheelOffset>>, <<-6, -14, DefaultWheelOffset>> }

NextTrack ==
  \/ \E a \in TrackPriorArguments :
       CreateTrack(a[1], a[2], a[3], a[4], a[5]) /\ UNCHANGED pressed
  \/ \E t \in TrackArguments :
       AddVehicleTrack(t[1], t[2], t[3]) /\ UNCHANGED pressed
  \/ ResetSnow /\ UNCHANGED pressed

SpecTrack == Init /\ [][NextTrack]_vars

\* ----------------------------------------------------------- constructor
DefaultSize == 400
DefaultSegments == 100

\* options.size || 20, options.segments || 100: an absent or zero option
\* takes the default
OptionOr(option, default) ==
  IF option.given /\ option.value # 0 THEN option.value ELSE default

\* the number of vertices PlaneGeometry builds for `segments` segments
PlaneVertexCount(segments) ==
  IF segments + 1 > 0 THEN (segments + 1) * (segments + 1) ELSE 0

\* constructor and init: no option is validated, nothing is thrown;
\* initSnowData allocates elevations and trackIntensity with count entries
Constructor(size, segments) ==
  LET n == PlaneVertexCount(OptionOr(segments, DefaultSegments))
  IN [ size |-> size, segments |-> segments, outcome |-> "constructed",
       snowSize |-> OptionOr(size, DefaultSize),
       snowSegments |-> OptionOr(segments, DefaultSegments),
       count |-> n,
       implementation |-> "class", elevationsLength |-> n,
       trackIntensityLength |-> n ]

\* the standalone script: snowSize = 20, snowSegments = 100,
\* elevations = new Float32Array(count),
\* trackIntensity = new Float32Array(count*5000)
ScriptOverAllocation == 5000
Script(size, segments) ==
  LET n == PlaneVertexCount(DefaultSegments)
  IN [ size |-> size, segments |-> segments, outcome |-> "constructed",
       snowSize |-> DefaultSize, snowSegments |-> DefaultSegments,
       count |-> n,
       implementation |-> "script", elevationsLength |-> n,
       trackIntensityLength |-> n * ScriptOverAllocation ]

Absent == [given |-> FALSE, value |-> 0]
Given(v) == [given |-> TRUE, value |-> v]
SizeOptions == {Absent} \cup { Given(v) : v \in {-400, -60, -20, 0, 20, 60, 400, 800} }
SegmentOptions == {Absent} \cup { Given(v) : v \in {-3, -2, -1, 0, 1, 2, 3, 100} }

InitConstruct ==
  /\ InitGrid
  /\ InitCube
  /\ frames = 0
  /\ calls = 0
  /\ lastOp = NoOp
  /\ inputsBounded = TRUE
  /\ pressed = {}
  /\ lookup = NoLookup
  /\ \/ \E size \in SizeOptions, segments \in SegmentOptions :
          construction =
            [ NoConstruction EXCEPT !.size = size, !.segments = segments,
                                    !.outcome = "pending" ]
     \/ construction =
          [ NoConstruction EXCEPT !.implementation = "script",
                                  !.outcome = "pending" ]

Construct ==
  /\ construction.outcome = "pending"
  /\ construction.implementation = "class"
  /\ construction' = Constructor(construction.size, construction.segments)
  /\ UNCHANGED <<gridVars, bufferVars, cubeVars, frames, calls, lastOp,
                 inputsBounded, pressed, lookup>>

\* the script runs from its first line to the start of its loop
RunScript ==
  /\ construction.outcome = "pending"
  /\ construction.implementation = "script"
  /\ construction' = Script(construction.size, construction.segments)
  /\ UNCHANGED <<gridVars, bufferVars, cubeVars, frames, calls, lastOp,
                 inputsBounded, pressed, lookup>>

NextConstruct ==
  \/ Construct
  \/ RunScript

SpecConstruct == InitConstruct /\ [][NextConstruct]_vars

\* ------------------------------------ the movement limit, for any size
\* sizes of the field: 1, 2, 3 and 20 world units
LimitSizes == {20, 40, 60, 400}
LimitStarts == CubeStarts \cup { <<500, -500, 0, 0>>, <<-9, 10, 0, 0>> }

InitLimit ==
  /\ InitGrid
  /\ keys = [k \in KeyNames |-> FALSE]
  /\ cubePosition \in LimitStarts
  /\ lastPosition = cubePosition
  /\ frames = 0
  /\ calls = 0
  /\ lastOp = NoOp
  /\ inputsBounded = TRUE
  /\ pressed = {}
  /\ lookup = NoLookup
  /\ \E size \in LimitSizes : construction = Constructor(Given(size), Absent)

\* updateVehiclePosition up to the clamp, in a system of the constructed
\* size: the key controls, then the limit on both axes.  The presses that
\* follow are centred on the position this leaves.
LimitPosition ==
  /\ frames < MaxFrames
  /\ cubePosition' = ClampToSize(construction.snowSize,
                                 MovedPosition(cubePosition, keys))
  /\ lastPosition' = cubePosition'
  /\ UNCHANGED <<gridVars, bufferVars, keys, calls, inputsBounded, pressed,
                 lookup, construction>>
  /\ lastOp' = Op("updateVehiclePosition", cubePosition'[1], cubePosition'[2],
                  0, 0)
  /\ frames' = frames + 1

NextLimit ==
  \/ \E k \in KeyNames \cup {"q"} : KeyDown(k)
  \/ \E k \in KeyNames \cup {"q"} : KeyUp(k)
  \/ LimitPosition

SpecLimit == InitLimit /\ [][NextLimit]_vars

\* -------------------------------------------------- getVertexIndex calls
ProbeCoordinates ==
  { -1000, -46, -31, -30, -29, -11, -10, -9, -1, 0, 1, 9, 10, 11,
    29, 30, 31, 46, 1000 }

GetVertexIndex(x, z) ==
  /\ lookup' = [x |-> x, z |-> z, index |-> getVertexIndex(x, z)]
  /\ UNCHANGED <<gridVars, bufferVars, cubeVars, frames, calls, lastOp,
                 inputsBounded, pressed, construction>>

NextIndex == \E x \in ProbeCoordinates, z \in ProbeCoordinates :
               GetVertexIndex(x, z)

SpecIndex == Init /\ [][NextIndex]_vars

\* ------------------------------------------------------------- claims
\* the squared planar distance of sample i from (x, z)
PlanarDistanceSquared(i, x, z) ==
  (basePositions[i][1] - x) * (basePositions[i][1] - x)
  + (basePositions[i][3] - z) * (basePositions[i][3] - z)

\* C1: in every reachable state every elevation is at most 0, and, while
\* every colorIntensity passed was within [0, 1], every trackIntensity is
\* within [0, 1].
C1_ElevationAndIntensityRange ==
  \A i \in Samples :
    /\ elevations[i] <= 0
    /\ inputsBounded =>
         (trackIntensity[i] >= 0 /\ trackIntensity[i] <= IntensityOne)

\* a second press has run, every intensity passed was within [0, 1], and a
\* sample is lowered and carries the full intensity 1
C1_Witness ==
  /\ calls >= 2
  /\ inputsBounded
  /\ lastOp.op = "pressSnow"
  /\ \E i \in Samples :
       elevations[i] < 0 /\ trackIntensity[i] = IntensityOne

\* C2: a step that raises an elevation or lowers a trackIntensity is a
\* resetSnow step; no press, whatever its arguments, does either.
C2_OnlyResetRaises ==
  [][ (\E i \in Samples :
         elevations'[i] > elevations[i]
         \/ trackIntensity'[i] < trackIntensity[i])
      => ResetSnow ]_vars

\* a press of negative depth has just run on a grid with a lowered sample,
\* and left it lowered
C2_Witness ==
  /\ lastOp.op = "pressSnow"
  /\ lastOp.depth < 0
  /\ lastOp.radius > 0
  /\ \E i \in Samples : elevations[i] < 0 /\ trackIntensity[i] > 0

\* C4: a press leaves every sample at planar distance >= radius as it was,
\* and a press of radius <= 0 leaves every sample as it was.
C4_OutsideRadiusUntouched ==
  [][ (calls' = calls + 1 /\ lastOp'.op = "pressSnow") =>
        \A i \in Samples :
          (lastOp'.radius <= 0
           \/ PlanarDistanceSquared(i, lastOp'.x, lastOp'.z)
                >= lastOp'.radius * lastOp'.radius)
            => /\ elevations'[i] = elevations[i]
               /\ trackIntensity'[i] = trackIntensity[i] ]_vars

\* a press of negative radius has just run on a pressed grid and changed
\* nothing
C4_Witness ==
  /\ lastOp.op = "pressSnow"
  /\ lastOp.radius < 0
  /\ lastOp.depth > 0
  /\ ~lastOp.changed
  /\ \E i \in Samples : elevations[i] < 0

\* C5: after resetSnow, from whatever state it was called in, every
\* elevation and every trackIntensity of the samples 0 .. count-1 is 0, and
\* the base positions and count are those of construction.
C5_ResetClears ==
  lastOp.op = "resetSnow" =>
    /\ \A i \in 0 .. (count - 1) :
         elevations[i] = 0 /\ trackIntensity[i] = 0
    /\ DOMAIN elevations = 0 .. (count - 1)
    /\ DOMAIN trackIntensity = 0 .. (count - 1)
    /\ basePositions = FreshGrid.basePositions
    /\ count = FreshGrid.count

\* resetSnow has just run on a grid that was not all zero
C5_Witness ==
  /\ lastOp.op = "resetSnow"
  /\ lastOp.changed

\* C6: after resetSnow the position, color and normal buffers are those of
\* a freshly constructed grid.
C6_ResetReproducesFreshBuffers ==
  lastOp.op = "resetSnow" =>
    /\ positionY = FreshGrid.positionY
    /\ colorAttr = FreshGrid.colorAttr
    /\ normalAttr = FreshGrid.normalAttr

SetMin(S) == CHOOSE m \in S : \A y \in S : m <= y
SetMax(S) == CHOOSE m \in S : \A y \in S : m >= y

\* the presses of the history that reach sample i
Reaching(i) ==
  { p \in pressed :
      p.radius > 0
      /\ PlanarDistanceSquared(i, p.x, p.z) < p.radius * p.radius }

\* C3: the elevation of every sample is the minimum of 0 and of
\* -depth*influence over the presses that reached it, and its trackIntensity
\* the maximum of 0 and of colorIntensity*influence over them; after the
\* presses of depth 0.1 and 0.05 at the centre of a sample alone, that
\* sample's elevation is -0.1.
C3_AccumulateByMinMax ==
  /\ \A i \in Samples :
       /\ elevations[i] =
            SetMin({0} \cup
              { -p.depth * Influence(Distance(basePositions, i, p.x, p.z),
                                     p.radius) : p \in Reaching(i) })
       /\ trackIntensity[i] =
            SetMax({0} \cup
              { p.colorIntensity
                  * Influence(Distance(basePositions, i, p.x, p.z), p.radius) :
                p \in Reaching(i) })
  /\ pressed = { Press(10, 10, DefaultRadius, DefaultDepth,
                       DefaultColorIntensity),
                 Press(10, 10, DefaultRadius, 5, DefaultColorIntensity) }
       => elevations[getVertexIndex(10, 10)] = -1000

\* the press of depth 0.05 has just run after the press of depth 0.1 at the
\* same centre, and the sample there is at -0.1
C3_Witness ==
  /\ pressed = { Press(10, 10, DefaultRadius, DefaultDepth,
                       DefaultColorIntensity),
                 Press(10, 10, DefaultRadius, 5, DefaultColorIntensity) }
  /\ lastOp.op = "pressSnow"
  /\ lastOp.depth = 5
  /\ ~lastOp.changed
  /\ elevations[getVertexIndex(10, 10)] = -1000

\* C7: getVertexIndex returns an index of the grid whose column and row
\* are floor((coordinate + size/2) / subdivision), clamped to
\* [0, segments], for coordinates inside and far outside the grid.
C7_IndexInRange ==
  lookup.index # -1 =>
    LET col == lookup.index % (snowSegments + 1)
        row == lookup.index \div (snowSegments + 1)
        Cell(coord, k) ==
          \/ k = 0 /\ coord < subdivision - halfSize
          \/ k = snowSegments /\ coord >= halfSize
          \/ /\ k * subdivision - halfSize <= coord
             /\ coord < (k + 1) * subdivision - halfSize
    IN /\ lookup.index >= 0
       /\ lookup.index < count
       /\ Cell(lookup.x, col)
       /\ Cell(lookup.z, row)

\* a lookup far beyond the grid on both sides yields the last column of the
\* first row
C7_Witness ==
  /\ lookup.x = 1000
  /\ lookup.z = -1000
  /\ lookup.index = snowSegments

\* C8: construction fails with InvalidArgument exactly when the size or the
\* segments given are <= 0.
C8_ConstructionValidates ==
  (construction.outcome \notin {"none", "pending"}
   /\ construction.size.given /\ construction.segments.given)
    => (construction.outcome = "InvalidArgument"
          <=> (construction.size.value <= 0
               \/ construction.segments.value <= 0))

\* one press of a sequence applied to the samples of g
PressOne(g, p) ==
  pressSamples(g, p.x, p.z, p.radius, p.depth, p.colorIntensity)

RECURSIVE InEveryOrder(_, _, _)
\* The grids that the presses leave when applied, each once, in every
\* order.  after[S], for each set S of n - 1 presses, holds the grids that
\* the presses of S leave in every order of S; a set of n presses leaves
\* what its last press makes of the grids the other n - 1 left.
InEveryOrder(presses, n, after) ==
  LET sets == { S \in SUBSET DOMAIN presses : Cardinality(S) = n }
      next == [S \in sets |->
                 UNION { { PressOne(h, presses[k]) : h \in after[S \ {k}] } :
                         k \in S }] @@ <<>>
  IN IF n = Len(presses) THEN next[DOMAIN presses]
     ELSE InEveryOrder(presses, n + 1, next)

\* C9: the five presses of addVehicleTrack, applied to the grid it was
\* called on in any of their 120 orders, leave the elevations and
\* trackIntensity that addVehicleTrack left.
C9_VehicleTrackOrderIndependent ==
  [][ (calls' = calls + 1 /\ lastOp'.op = "addVehicleTrack") =>
        \A g \in InEveryOrder(VehiclePresses(lastOp'.x, lastOp'.z,
                                             lastOp'.radius),
                              1, [S \in {{}} |-> {Grid}]) :
          /\ g.elevations = elevations'
          /\ g.trackIntensity = trackIntensity' ]_vars

\* addVehicleTrack has just run at (6, 6): the sample at (10, 10) lies under
\* a wheel press and under the centre press, and carries the wheel's values
C9_Witness ==
  /\ lastOp.op = "addVehicleTrack"
  /\ lastOp.x = 6 /\ lastOp.z = 6 /\ lastOp.radius = DefaultWheelOffset
  /\ lastOp.changed
  /\ PlanarDistanceSquared(getVertexIndex(10, 10), 6, 6)
       < centerRadius * centerRadius
  /\ elevations[getVertexIndex(10, 10)] = -(wheelDepth * InfluenceOne)
  /\ trackIntensity[getVertexIndex(10, 10)]
       = wheelColorIntensity * InfluenceOne

\* the position and color buffers are those derived from the grid state
BuffersAgree ==
  \A i \in Samples :
    /\ positionY[i] = basePositions[i][2] + elevations[i]
    /\ colorAttr[i] = << ColorOne - 20 * trackIntensity[i],
                         ColorOne - 15 * trackIntensity[i],
                         ColorOne - 10 * trackIntensity[i] >>

\* C10: whenever animate hands the buffers to the renderer, the position
\* and color buffers are those derived from the elevations and
\* trackIntensity of that moment.
C10_RenderedBuffersAgree ==
  [][ frames' = frames + 1 => BuffersAgree' ]_vars

\* a frame has just been rendered in which the loop pressed the snow, after
\* an earlier frame
C10_Witness ==
  /\ frames >= 2
  /\ lastOp.op = "animate"
  /\ lastOp.changed
  /\ \E i \in Samples : elevations[i] < 0 /\ positionY[i] = elevations[i]
  /\ BuffersAgree

\* the keys held leave the coordinate v where it is: none is held, the two
\* of the axis are held together, or the one held pushes v against the limit
StaysPut(v, minus, plus) ==
  \/ ~minus /\ ~plus
  \/ minus /\ plus
  \/ minus /\ ~plus /\ v = -Limit(snowSize)
  \/ plus /\ ~minus /\ v = Limit(snowSize)

\* C11: in every tick of the loop the presses are applied (and lastPosition
\* taken along) exactly when the clamped position differs from the position
\* the previous tick ended with; a tick whose keys leave the object where it
\* is applies no press and changes no elevation and no trackIntensity.
C11_PressIffMoved ==
  [][ frames' = frames + 1 =>
        /\ (lastPosition' # lastPosition) <=> (cubePosition' # cubePosition)
        /\ ( /\ StaysPut(cubePosition[1], keys["a"], keys["d"])
             /\ StaysPut(cubePosition[2], keys["w"], keys["s"]) )
             => /\ lastPosition' = lastPosition
                /\ elevations' = elevations
                /\ trackIntensity' = trackIntensity ]_vars

\* C12: a grid built from valid options has count = (segments + 1)^2
\* samples, and its elevation and trackIntensity arrays have exactly count
\* entries each, in the class and in the script.
C12_ArraysHaveCountEntries ==
  (construction.outcome = "constructed" /\ construction.snowSize > 0
   /\ construction.snowSegments > 0)
    => /\ construction.count
            = (construction.snowSegments + 1) * (construction.snowSegments + 1)
       /\ construction.elevationsLength = construction.count
       /\ construction.trackIntensityLength = construction.count

\* C13: updateSnowGeometry changes no count, basePosition, elevation or
\* trackIntensity, and when called right after itself it leaves the position,
\* color and normal buffers as its first call left them.
C13_UpdateIdempotent ==
  [][ (calls' = calls + 1 /\ lastOp'.op = "updateSnowGeometry") =>
        /\ count' = count
        /\ basePositions' = basePositions
        /\ elevations' = elevations
        /\ trackIntensity' = trackIntensity
        /\ lastOp'.repeated =>
             /\ positionY' = positionY
             /\ colorAttr' = colorAttr
             /\ normalAttr' = normalAttr ]_vars

\* updateSnowGeometry has just run for the second time in a row on a grid
\* with a pressed sample, whose buffers show the press
C13_Witness ==
  /\ lastOp.op = "updateSnowGeometry"
  /\ lastOp.repeated
  /\ \E i \in Samples :
       /\ elevations[i] < 0
       /\ positionY[i] = basePositions[i][2] + elevations[i]
       /\ colorAttr[i][1] < ColorOne
  /\ \E j \in Samples : normalAttr[j][1] # 0

\* C14: when a tick has moved and clamped the object, its x and z lie in
\* [-(size/2 - 1), size/2 - 1], and the centres of the five presses of that
\* position lie in [-size/2, size/2] on both axes.
C14_PositionWithinLimit ==
  lastOp.op = "updateVehiclePosition" =>
    LET limit == Limit(construction.snowSize)
        half == TDiv(construction.snowSize, 2)
    IN /\ -limit <= cubePosition[1] /\ cubePosition[1] <= limit
       /\ -limit <= cubePosition[2] /\ cubePosition[2] <= limit
       /\ \A k \in 1 .. 5 :
            LET p == VehiclePresses(cubePosition[1], cubePosition[2],
                                    DefaultWheelOffset)[k]
            IN /\ -half <= p.x /\ p.x <= half
               /\ -half <= p.z /\ p.z <= half

====
